---- MODULE Spec2Model ----
(***************************************************************************)
(* Session-scoped conversational memory of the tutoring backend            *)
(* (src/backend/main.py): get_or_create_session, save_session_chat_turn,   *)
(* generate_conversation_summary, get_session_chat_history and the chat,   *)
(* clear-history and archive handlers, run as concurrent requests against  *)
(* one shared store (tables chat_sessions and chat_history).               *)
(*                                                                         *)
(* Every store call, embedding call and generation call is one step; each  *)
(* may raise.  Requests run in any interleaving of their steps.            *)
(*                                                                         *)
(* The document chunker of src/rag.py (chunk_text) is a function of its    *)
(* arguments; SpecChunk applies it to every small document.                *)
(***************************************************************************)
EXTENDS Integers, Sequences, FiniteSets, TLC

\* ---------------------------------------------------------------- bounds
MaxTextLen == 7      \* characters of a document given to chunk_text
MaxChunkSize == 4    \* largest max_chunk_size given to chunk_text
MaxOverlap == 2      \* largest overlap given to chunk_text
MaxCorpus == 3       \* rows of the chunks table
MaxTopK == 3         \* largest top_k given to retrieve_chunks
MaxDistance == 11    \* largest cosine distance of a row, in tenths
MaxEvents == 2       \* transcription events of a voice session
OpsSeq == 2          \* inbound operations of a run that handles one at a time
OpsWide == 2         \* inbound operations of a run with two in flight
OpsDeep == 4         \* chat requests of a run on a single scope
MaxFaults == 2       \* downstream calls that raise in one run
Prior == 9           \* successful exchanges a run may start after
MaxWindow == 8       \* window sizes a history read is checked for
OpsAuth == 2         \* inbound operations of a run with bad credentials

Users == {"u1", "u2"}
Chapters == {"c1", "c2"}
Procs == {1, 2}      \* request slots: requests in flight at the same time
Kinds == {"chat", "chat_invalid", "clear", "archive", "history"}
\* the Authorization header of a request: a token that verifies, a well-formed
\* token whose signature does not verify, or no header
Credentials == {"valid", "forged", "missing"}

\* A run is bounded by its workload: the store it starts from (a fresh one, or
\* the first session after `prior` successful exchanges), who sends which
\* kinds of requests with which credentials, how many of them, how many are
\* handled at the same time (slots), how many downstream calls raise, and
\* whether SUPABASE_JWT_SECRET is set in the environment.
\*   - one request at a time, every scope, with failing calls;
\*   - two requests in flight, both users on one chapter, no failing call;
\*   - chat requests only, all of one scope, two in flight, no failing call;
\*   - one request at a time with any credential, to either app (the
\*     session-based one of src/backend/main.py or the one of src/main.py).
Workloads ==
    {[prior |-> n, users |-> Users, chapters |-> Chapters, kinds |-> Kinds,
      slots |-> {1}, ops |-> OpsSeq, faults |-> MaxFaults,
      creds |-> {"valid"}, jwt_secret |-> TRUE] : n \in {0, Prior}}
    \cup
    {[prior |-> n, users |-> Users, chapters |-> {"c1"}, kinds |-> Kinds,
      slots |-> Procs, ops |-> OpsWide, faults |-> 0,
      creds |-> {"valid"}, jwt_secret |-> TRUE] : n \in {0, Prior}}
    \cup
    {[prior |-> 0, users |-> {"u1"}, chapters |-> {"c1"}, kinds |-> {"chat"},
      slots |-> Procs, ops |-> OpsDeep, faults |-> 0,
      creds |-> {"valid"}, jwt_secret |-> TRUE]}
    \cup
    {[prior |-> Prior, users |-> {"u1"}, chapters |-> {"c1"},
      kinds |-> Kinds \cup {"root_clear"},
      slots |-> {1}, ops |-> OpsAuth, faults |-> 0,
      creds |-> Credentials, jwt_secret |-> b] : b \in BOOLEAN}

\* ------------------------------------------------------- program constants
SummaryInterval == 10    \* message_count % 10 == 0
SummaryLookback == 16    \* start_idx = max(0, message_count - 16)
SummaryKeep == 6         \* end_idx = message_count - 6
DefaultLimit == 6        \* get_session_chat_history(session_id, limit=6)
HistoryLimit == 50       \* the history endpoint's limit=50

NoSession == 0           \* no session id resolved yet / an id no row has
None == <<>>             \* Python None (a summary text is never empty)
HardcodedUser == "dev"   \* the fallback user id of src/main.py

VARIABLES
    chat_sessions,   \* table chat_sessions: row i has id i
    chat_history,    \* table chat_history, in created_at order
    req,             \* per request slot: position and locals of its handler
    nextOp,          \* id of the next inbound operation
    faults,          \* downstream calls that raised so far
    load,            \* the run's workload (fixed)
    trail,           \* observer: the latest get_or_create_session calls
    rag,             \* the document pipeline of src/rag.py: input and result
    voice            \* the voice relay: position, last answer, messages sent

vars == <<chat_sessions, chat_history, req, nextOp, faults, load, trail, rag,
          voice>>

Max(a, b) == IF a >= b THEN a ELSE b
Min(a, b) == IF a <= b THEN a ELSE b

\* ------------------------------------------------------------ store rows
\* session_data of get_or_create_session; timestamps carry the id of the
\* operation that wrote them
NewSession(u, c, t) ==
    [user_id |-> u, chapter_id |-> c, status |-> "active", message_count |-> 0,
     conversation_summary |-> None, updated_at |-> t, last_summarized_at |-> 0]

\* the row save_session_chat_turn inserts; q identifies the question asked
NewTurn(u, sid, role, q) ==
    [user_id |-> u, session_id |-> sid, role |-> role, qid |-> q]

SessionIds(ss) == 1..Len(ss)

\* mutant of ActiveMatches: the select without its status filter
ActiveMatchesAnyStatus(ss, u, c) ==
    {s \in SessionIds(ss) : ss[s].user_id = u /\ ss[s].chapter_id = c}

\* .eq("user_id").eq("chapter_id").eq("status", "active")
ActiveMatches(ss, u, c) ==
    {s \in SessionIds(ss) : /\ ss[s].user_id = u
                            /\ ss[s].chapter_id = c
                            /\ ss[s].status = "active"}

\* .update({"updated_at": now}).eq("id", sid)
Touch(ss, sid, t) ==
    [s \in SessionIds(ss) |->
        IF s = sid THEN [ss[s] EXCEPT !.updated_at = t] ELSE ss[s]]

\* rpc increment_session_message_count
IncrementCount(ss, sid) ==
    [s \in SessionIds(ss) |->
        IF s = sid THEN [ss[s] EXCEPT !.message_count = @ + 1] ELSE ss[s]]

\* .update({"conversation_summary": summary, "last_summarized_at": now})
WriteSummary(ss, sid, summary, t) ==
    [s \in SessionIds(ss) |->
        IF s = sid THEN [ss[s] EXCEPT !.conversation_summary = summary,
                                      !.last_summarized_at = t]
        ELSE ss[s]]

\* .update({"message_count": 0, "updated_at": now}).eq("id", sid)
ResetCount(ss, sid, t) ==
    [s \in SessionIds(ss) |->
        IF s = sid THEN [ss[s] EXCEPT !.message_count = 0, !.updated_at = t]
        ELSE ss[s]]

\* .update({"status": "archived", "updated_at": now}).eq("id", sid)
SetArchived(ss, sid, t) ==
    [s \in SessionIds(ss) |->
        IF s = sid THEN [ss[s] EXCEPT !.status = "archived", !.updated_at = t]
        ELSE ss[s]]

\* chat_history rows .eq("session_id", sid), oldest first
SessionTurns(h, sid) == SelectSeq(h, LAMBDA t : t.session_id = sid)

\* Python's seq[lo:hi] for 0 <= lo and 0 <= hi
Slice(seq, lo, hi) ==
    IF Min(hi, Len(seq)) <= lo THEN <<>>
    ELSE SubSeq(seq, lo + 1, Min(hi, Len(seq)))

\* mutant of LastTurns: the rows as the store returns them, newest first
LastTurnsNewestFirst(seq, limit) ==
    IF limit <= 0 THEN <<>>
    ELSE [i \in 1..Min(limit, Len(seq)) |-> seq[Len(seq) - i + 1]]

\* .order("created_at", desc=True).limit(limit), then reversed
LastTurns(seq, limit) ==
    IF limit <= 0 THEN <<>>
    ELSE SubSeq(seq, Max(1, Len(seq) - limit + 1), Len(seq))

\* mutant of SummaryDue: the trigger without its message_count > 0 test
SummaryDueAtZero(message_count) == message_count % SummaryInterval = 0

\* the trigger of save_session_chat_turn
SummaryDue(message_count) ==
    message_count > 0 /\ message_count % SummaryInterval = 0

start_idx(message_count) == Max(0, message_count - SummaryLookback)
end_idx(message_count) == message_count - SummaryKeep

\* all_messages[start_index:end_index] of generate_conversation_summary
messages_to_summarize(h, sid, lo, hi) == Slice(SessionTurns(h, sid), lo, hi)

\* the generation service's digest of a block of turns: it stands for the
\* text and records what it was computed from
SummaryOf(block) == block

\* get_session_chat_history: the newest `limit` turns oldest first, and the
\* session's summary; .single() raises when no row has the id, and the
\* handler then returns the empty history
get_session_chat_history(ss, h, sid, limit) ==
    IF sid \in SessionIds(ss)
    THEN [messages |-> LastTurns(SessionTurns(h, sid), limit),
          summary |-> ss[sid].conversation_summary]
    ELSE [messages |-> <<>>, summary |-> None]

\* ---------------------------------------------- the store at start of a run
\* one successful, uninterleaved exchange q in session sid: both saves of the
\* chat handler and the summarization they may trigger
ExchangeDone(st, u, sid, q) ==
    LET h1 == Append(st.h, NewTurn(u, sid, "user", q))
        s1 == Touch(IncrementCount(st.s, sid), sid, q)
        h2 == Append(h1, NewTurn(u, sid, "assistant", q))
        s2 == Touch(s1, sid, q)
        n  == s2[sid].message_count
        blk == messages_to_summarize(h2, sid, start_idx(n), end_idx(n))
    IN  [h |-> h2,
         s |-> IF SummaryDue(n) /\ blk # <<>>
               THEN WriteSummary(s2, sid, SummaryOf(blk), q) ELSE s2]

RECURSIVE AfterExchanges(_, _)
\* the store after k successful exchanges in a fresh session of u1 on c1;
\* of n in all, so that their operation ids end at 0
AfterExchanges(k, n) ==
    IF k = 0
    THEN [h |-> <<>>,
          s |-> IF n = 0 THEN <<>> ELSE <<NewSession("u1", "c1", 1 - n)>>]
    ELSE ExchangeDone(AfterExchanges(k - 1, n), "u1", 1, k - n)

\* what a history read returns when a store call of it raised
NoHistory == [messages |-> <<>>, summary |-> None]

\* get_current_user of src/backend/auth.py: TRUE when it returns a user id,
\* FALSE when it raises 401.  Without SUPABASE_JWT_SECRET the token is decoded
\* with verify_signature off
get_current_user(authorization, jwt_secret) ==
    CASE authorization = "missing" -> FALSE
      [] authorization = "forged"  -> ~jwt_secret
      [] OTHER                     -> TRUE

\* get_current_user of src/main.py: the token's sub, decoded with
\* verify_signature off, else the hardcoded user id; it never raises
get_current_user_dev(authorization, sub) ==
    IF authorization = "missing" THEN HardcodedUser ELSE sub

\* auth: the credential presented; logged: the failure last written to the
\* log; hist: the history read of the handler
Idle == [pc |-> "idle", user |-> "u1", chapter |-> "c1", qid |-> 0,
         sid |-> NoSession, count |-> 0, block |-> <<>>, resp |-> "none",
         auth |-> "valid", logged |-> "none", hist |-> NoHistory]

\* Observer of get_or_create_session calls that run back to back, each as
\* two consecutive steps with no step of any other handler in between:
\* stage 1 the first call has selected, 2 it has returned `first`, 3 a second
\* call for the same scope has selected, 4 it has returned `second` and left
\* `active` active sessions for the scope.
NoTrail == [stage |-> 0, proc |-> 0, user |-> "u1", chapter |-> "c1",
            first |-> NoSession, second |-> NoSession, active |-> 0]

\* the document pipeline is not run
NoRag == [stage |-> "off", text |-> <<>>, max_chunk_size |-> 0,
          overlap |-> 0, chunks |-> <<>>]

\* the voice relay is not running
NoVoice == [stage |-> "off", failed |-> FALSE, answer |-> <<>>,
            tts_input |-> <<>>, events |-> 0, sent |-> <<>>]

Init ==
    /\ trail = NoTrail
    /\ rag = NoRag
    /\ voice = NoVoice
    /\ load \in Workloads
    /\ chat_sessions = AfterExchanges(load.prior, load.prior).s
    /\ chat_history = AfterExchanges(load.prior, load.prior).h
    /\ req = [p \in Procs |-> Idle]
    /\ nextOp = 1
    /\ faults = 0

\* slot p can take the next inbound operation, of the given kind: it runs no
\* handler, and the slots are taken lowest first
Free(p, kind) ==
    /\ kind \in load.kinds
    /\ p \in load.slots
    /\ req[p].pc \in {"idle", "done"}
    /\ nextOp <= load.ops
    /\ \A q \in Procs : q < p => req[q].pc \notin {"idle", "done"}

\* a downstream call may raise while the run's fault budget lasts
MayFail == faults < load.faults
Raise == faults' = faults + 1

\* the handler of slot p ends with response r; its locals other than the
\* request's own data are gone
Finish(p, r) ==
    req' = [req EXCEPT ![p].pc = "done", ![p].resp = r,
                       ![p].count = 0, ![p].block = <<>>]
Goto(p, pc) == req' = [req EXCEPT ![p].pc = pc]

\* the same, after an except branch has logged the failure `what`
FinishLogged(p, r, what) ==
    req' = [req EXCEPT ![p].pc = "done", ![p].resp = r, ![p].logged = what,
                       ![p].count = 0, ![p].block = <<>>]
GotoLogged(p, pc, what) ==
    req' = [req EXCEPT ![p].pc = pc, ![p].logged = what]

\* the request of operation q, refused by get_current_user with 401 before
\* its handler runs
Rejected(cred, q) ==
    [Idle EXCEPT !.pc = "done", !.qid = q, !.auth = cred, !.resp = "http_401"]

\* ------------------------------------------------------------------ chat
\* mutant of StartChat: the session is created before the parameters are
\* validated
StartChatValidatingLate(p) ==
    /\ Free(p, "chat")
    /\ \E cred \in load.creds, u \in load.users, c \in load.chapters :
          IF ~get_current_user(cred, load.jwt_secret)
          THEN /\ req' = [req EXCEPT ![p] = Rejected(cred, nextOp)]
               /\ UNCHANGED chat_sessions
          ELSE \/ /\ req' = [req EXCEPT ![p] = [Idle EXCEPT
                                !.pc = "goc_select", !.user = u,
                                !.chapter = c, !.qid = nextOp, !.auth = cred]]
                  /\ UNCHANGED chat_sessions
               \/ /\ "chat_invalid" \in load.kinds
                  /\ req' = [req EXCEPT ![p] = [Idle EXCEPT !.pc = "done",
                             !.user = u, !.chapter = c, !.qid = nextOp,
                             !.auth = cred, !.resp = "http_400"]]
                  /\ chat_sessions' =
                        Append(chat_sessions, NewSession(u, c, nextOp))
    /\ nextOp' = nextOp + 1
    /\ UNCHANGED <<chat_history, faults, load, rag, voice>>
    /\ trail' = NoTrail

\* POST /api/chat arrives: get_current_user may refuse it with 401; a request
\* missing a session parameter gets 400
StartChat(p) ==
    /\ Free(p, "chat")
    /\ \E cred \in load.creds, u \in load.users, c \in load.chapters :
          IF ~get_current_user(cred, load.jwt_secret)
          THEN req' = [req EXCEPT ![p] = Rejected(cred, nextOp)]
          ELSE \/ req' = [req EXCEPT ![p] = [Idle EXCEPT !.pc = "goc_select",
                             !.user = u, !.chapter = c, !.qid = nextOp,
                             !.auth = cred]]
               \/ /\ "chat_invalid" \in load.kinds
                  /\ req' = [req EXCEPT ![p] = [Idle EXCEPT !.pc = "done",
                             !.user = u, !.chapter = c, !.qid = nextOp,
                             !.auth = cred, !.resp = "http_400"]]
    /\ nextOp' = nextOp + 1
    /\ UNCHANGED <<chat_sessions, chat_history, faults, load, rag, voice>>
    /\ trail' = NoTrail

TrailSelect(p) ==
    trail' =
        IF req'[p].pc \notin {"goc_update", "goc_insert"} THEN NoTrail
        ELSE IF /\ trail.stage = 2
                /\ trail.user = req[p].user
                /\ trail.chapter = req[p].chapter
             THEN [trail EXCEPT !.stage = 3, !.proc = p]
             ELSE [NoTrail EXCEPT !.stage = 1, !.proc = p,
                                  !.user = req[p].user,
                                  !.chapter = req[p].chapter]

TrailReturn(p) ==
    trail' =
        IF req'[p].pc # "embed" \/ trail.proc # p THEN NoTrail
        ELSE IF trail.stage = 1
             THEN [trail EXCEPT !.stage = 2, !.first = req'[p].sid]
        ELSE IF trail.stage = 3
             THEN [trail EXCEPT !.stage = 4, !.second = req'[p].sid,
                      !.active = Cardinality(ActiveMatches(chat_sessions',
                                     req[p].user, req[p].chapter))]
        ELSE NoTrail

\* get_or_create_session: the select of the active session of the scope
GocSelect(p) ==
    /\ req[p].pc = "goc_select"
    /\ \/ /\ ActiveMatches(chat_sessions, req[p].user, req[p].chapter) # {}
          /\ \E s \in ActiveMatches(chat_sessions, req[p].user, req[p].chapter) :
                req' = [req EXCEPT ![p].pc = "goc_update", ![p].sid = s]
          /\ UNCHANGED faults
       \/ /\ ActiveMatches(chat_sessions, req[p].user, req[p].chapter) = {}
          /\ Goto(p, "goc_insert")
          /\ UNCHANGED faults
       \/ /\ MayFail /\ Raise
          /\ Finish(p, "error_session")
    /\ UNCHANGED <<chat_sessions, chat_history, nextOp, load, rag, voice>>
    /\ TrailSelect(p)

\* mutant of GocUpdate: the update has lost its .eq("id", ...) filter and
\* stamps every session
GocUpdateUnfiltered(p) ==
    /\ req[p].pc = "goc_update"
    /\ \/ /\ chat_sessions' =
                [s \in DOMAIN chat_sessions |->
                    [chat_sessions[s] EXCEPT !.updated_at = req[p].qid]]
          /\ Goto(p, "embed")
          /\ UNCHANGED faults
       \/ /\ MayFail /\ Raise
          /\ Finish(p, "error_session")
          /\ UNCHANGED chat_sessions
    /\ UNCHANGED <<chat_history, nextOp, load, rag, voice>>
    /\ TrailReturn(p)

\* get_or_create_session: an active session was found, update last activity
GocUpdate(p) ==
    /\ req[p].pc = "goc_update"
    /\ \/ /\ chat_sessions' = Touch(chat_sessions, req[p].sid, req[p].qid)
          /\ Goto(p, "embed")
          /\ UNCHANGED faults
       \/ /\ MayFail /\ Raise
          /\ Finish(p, "error_session")
          /\ UNCHANGED chat_sessions
    /\ UNCHANGED <<chat_history, nextOp, load, rag, voice>>
    /\ TrailReturn(p)

\* get_or_create_session: none was found, insert a new session (fresh uuid)
GocInsert(p) ==
    /\ req[p].pc = "goc_insert"
    /\ \/ /\ chat_sessions' = Append(chat_sessions,
                NewSession(req[p].user, req[p].chapter, req[p].qid))
          /\ req' = [req EXCEPT ![p].pc = "embed",
                                ![p].sid = Len(chat_sessions) + 1]
          /\ UNCHANGED faults
       \/ /\ MayFail /\ Raise
          /\ Finish(p, "error_session")
          /\ UNCHANGED chat_sessions
    /\ UNCHANGED <<chat_history, nextOp, load, rag, voice>>
    /\ TrailReturn(p)

\* embedding of the question with models/text-embedding-004
Embed(p) ==
    /\ req[p].pc = "embed"
    /\ \/ /\ Goto(p, "search")
          /\ UNCHANGED faults
       \/ /\ MayFail /\ Raise
          /\ Goto(p, "embed_fallback")
    /\ UNCHANGED <<chat_sessions, chat_history, nextOp, load, rag, voice>>
    /\ trail' = NoTrail

\* mutant of EmbedFallback: a failed attempt starts over with the newer model
EmbedFallbackRetrying(p) ==
    /\ req[p].pc = "embed_fallback"
    /\ \/ /\ Goto(p, "search")
          /\ UNCHANGED faults
       \/ /\ MayFail /\ Raise
          /\ Goto(p, "embed")
    /\ UNCHANGED <<chat_sessions, chat_history, nextOp, load, rag, voice>>
    /\ trail' = NoTrail

\* the one further attempt with models/embedding-001
EmbedFallback(p) ==
    /\ req[p].pc = "embed_fallback"
    /\ \/ /\ Goto(p, "search")
          /\ UNCHANGED faults
       \/ /\ MayFail /\ Raise
          /\ Finish(p, "error_embedding")
    /\ UNCHANGED <<chat_sessions, chat_history, nextOp, load, rag, voice>>
    /\ trail' = NoTrail

\* rpc match_chunks
VectorSearch(p) ==
    /\ req[p].pc = "search"
    /\ \/ /\ Goto(p, "llm")
          /\ UNCHANGED faults
       \/ /\ MayFail /\ Raise
          /\ Finish(p, "error_search")
    /\ UNCHANGED <<chat_sessions, chat_history, nextOp, load, rag, voice>>
    /\ trail' = NoTrail

\* mutant of LLMCall: the question is saved before the generation call
LLMCallSavesQuestionFirst(p) ==
    /\ req[p].pc = "llm"
    /\ chat_history' = Append(chat_history,
          NewTurn(req[p].user, req[p].sid, "user", req[p].qid))
    /\ \/ /\ Goto(p, "user_count")
          /\ UNCHANGED faults
       \/ /\ MayFail /\ Raise
          /\ FinishLogged(p, "fallback", "llm")
    /\ UNCHANGED <<chat_sessions, nextOp, load, rag, voice>>
    /\ trail' = NoTrail

\* history read (both store calls of it), prompt and the generation call; a
\* failed history read leaves the prompt without history; a failed
\* generation call returns the rephrase message and skips both saves
LLMCall(p) ==
    /\ req[p].pc = "llm"
    /\ \/ /\ req' = [req EXCEPT ![p].pc = "user_insert",
                   ![p].hist = get_session_chat_history(chat_sessions,
                                   chat_history, req[p].sid, DefaultLimit)]
          /\ UNCHANGED faults
       \/ /\ MayFail /\ Raise
          /\ req' = [req EXCEPT ![p].pc = "user_insert",
                   ![p].hist = NoHistory, ![p].logged = "history"]
       \/ /\ MayFail /\ Raise
          /\ FinishLogged(p, "fallback", "llm")
    /\ UNCHANGED <<chat_sessions, chat_history, nextOp, load, rag, voice>>
    /\ trail' = NoTrail

\* mutant of UserInsert: an insert that raises fails the request
UserInsertRaising(p) ==
    /\ req[p].pc = "user_insert"
    /\ \/ /\ chat_history' = Append(chat_history,
                NewTurn(req[p].user, req[p].sid, "user", req[p].qid))
          /\ req' = [req EXCEPT ![p].pc = "user_count",
                                ![p].hist = NoHistory]
          /\ UNCHANGED faults
       \/ /\ MayFail /\ Raise
          /\ FinishLogged(p, "http_500", "save_turn")
          /\ UNCHANGED chat_history
    /\ UNCHANGED <<chat_sessions, nextOp, load, rag, voice>>
    /\ trail' = NoTrail

\* save_session_chat_turn(role = "user"): the insert.  Any exception of a
\* save is caught by its outer except, logged, and the handler goes on
UserInsert(p) ==
    /\ req[p].pc = "user_insert"
    /\ \/ /\ chat_history' = Append(chat_history,
                NewTurn(req[p].user, req[p].sid, "user", req[p].qid))
          /\ req' = [req EXCEPT ![p].pc = "user_count",
                                ![p].hist = NoHistory]
          /\ UNCHANGED faults
       \/ /\ MayFail /\ Raise
          /\ req' = [req EXCEPT ![p].pc = "asst_insert",
                                ![p].hist = NoHistory,
                                ![p].logged = "save_turn"]
          /\ UNCHANGED chat_history
    /\ UNCHANGED <<chat_sessions, nextOp, load, rag, voice>>
    /\ trail' = NoTrail

\* save_session_chat_turn(role = "user"): the counter increment
UserCount(p) ==
    /\ req[p].pc = "user_count"
    /\ \/ /\ chat_sessions' = IncrementCount(chat_sessions, req[p].sid)
          /\ Goto(p, "user_touch")
          /\ UNCHANGED faults
       \/ /\ MayFail /\ Raise
          /\ GotoLogged(p, "asst_insert", "save_turn")
          /\ UNCHANGED chat_sessions
    /\ UNCHANGED <<chat_history, nextOp, load, rag, voice>>
    /\ trail' = NoTrail

\* save_session_chat_turn(role = "user"): updated_at
UserTouch(p) ==
    /\ req[p].pc = "user_touch"
    /\ \/ /\ chat_sessions' = Touch(chat_sessions, req[p].sid, req[p].qid)
          /\ Goto(p, "asst_insert")
          /\ UNCHANGED faults
       \/ /\ MayFail /\ Raise
          /\ GotoLogged(p, "asst_insert", "save_turn")
          /\ UNCHANGED chat_sessions
    /\ UNCHANGED <<chat_history, nextOp, load, rag, voice>>
    /\ trail' = NoTrail

\* mutant of AsstInsert: the counter is incremented for every role
AsstInsertCounting(p) ==
    /\ req[p].pc = "asst_insert"
    /\ \/ /\ chat_history' = Append(chat_history,
                NewTurn(req[p].user, req[p].sid, "assistant", req[p].qid))
          /\ chat_sessions' = IncrementCount(chat_sessions, req[p].sid)
          /\ Goto(p, "asst_touch")
          /\ UNCHANGED faults
       \/ /\ MayFail /\ Raise
          /\ FinishLogged(p, "answer", "save_turn")
          /\ UNCHANGED <<chat_history, chat_sessions>>
    /\ UNCHANGED <<nextOp, load, rag, voice>>
    /\ trail' = NoTrail

\* save_session_chat_turn(role = "assistant"): the insert
AsstInsert(p) ==
    /\ req[p].pc = "asst_insert"
    /\ \/ /\ chat_history' = Append(chat_history,
                NewTurn(req[p].user, req[p].sid, "assistant", req[p].qid))
          /\ Goto(p, "asst_touch")
          /\ UNCHANGED faults
       \/ /\ MayFail /\ Raise
          /\ FinishLogged(p, "answer", "save_turn")
          /\ UNCHANGED chat_history
    /\ UNCHANGED <<chat_sessions, nextOp, load, rag, voice>>
    /\ trail' = NoTrail

\* save_session_chat_turn(role = "assistant"): updated_at
AsstTouch(p) ==
    /\ req[p].pc = "asst_touch"
    /\ \/ /\ chat_sessions' = Touch(chat_sessions, req[p].sid, req[p].qid)
          /\ Goto(p, "asst_count")
          /\ UNCHANGED faults
       \/ /\ MayFail /\ Raise
          /\ FinishLogged(p, "answer", "save_turn")
          /\ UNCHANGED chat_sessions
    /\ UNCHANGED <<chat_history, nextOp, load, rag, voice>>
    /\ trail' = NoTrail

\* the trigger: read message_count, summarize when it is due
TriggerTarget(p, n) ==
    IF SummaryDue(n)
    THEN [req[p] EXCEPT !.pc = "sum_fetch", !.count = n]
    ELSE [req[p] EXCEPT !.pc = "done", !.resp = "answer"]

AsstCount(p) ==
    /\ req[p].pc = "asst_count"
    /\ \/ /\ req' = [req EXCEPT ![p] =
                TriggerTarget(p, chat_sessions[req[p].sid].message_count)]
          /\ UNCHANGED faults
       \/ /\ MayFail /\ Raise
          /\ FinishLogged(p, "answer", "trigger")
    /\ UNCHANGED <<chat_sessions, chat_history, nextOp, load, rag, voice>>
    /\ trail' = NoTrail

\* mutant of SumFetch: an empty block is handed to the generation call too
SumFetchSummarizingEmpty(p) ==
    /\ req[p].pc = "sum_fetch"
    /\ \/ /\ req' = [req EXCEPT ![p] =
                LET blk == messages_to_summarize(chat_history, req[p].sid,
                               start_idx(req[p].count), end_idx(req[p].count))
                IN  [req[p] EXCEPT !.pc = "sum_generate", !.block = blk]]
          /\ UNCHANGED faults
       \/ /\ MayFail /\ Raise
          /\ FinishLogged(p, "answer", "summary")
    /\ UNCHANGED <<chat_sessions, chat_history, nextOp, load, rag, voice>>
    /\ trail' = NoTrail

\* generate_conversation_summary: fetch the session's turns and cut the
\* block; an empty block is logged as a warning and ends it
SumFetch(p) ==
    /\ req[p].pc = "sum_fetch"
    /\ \/ /\ req' = [req EXCEPT ![p] =
                LET blk == messages_to_summarize(chat_history, req[p].sid,
                               start_idx(req[p].count), end_idx(req[p].count))
                IN  IF blk = <<>>
                    THEN [req[p] EXCEPT !.pc = "done", !.resp = "answer",
                                        !.count = 0,
                                        !.logged = "no_messages"]
                    ELSE [req[p] EXCEPT !.pc = "sum_generate", !.block = blk]]
          /\ UNCHANGED faults
       \/ /\ MayFail /\ Raise
          /\ FinishLogged(p, "answer", "summary")
    /\ UNCHANGED <<chat_sessions, chat_history, nextOp, load, rag, voice>>
    /\ trail' = NoTrail

\* generate_conversation_summary: the generation call
SumGenerate(p) ==
    /\ req[p].pc = "sum_generate"
    /\ \/ /\ Goto(p, "sum_write")
          /\ UNCHANGED faults
       \/ /\ MayFail /\ Raise
          /\ FinishLogged(p, "answer", "summary")
    /\ UNCHANGED <<chat_sessions, chat_history, nextOp, load, rag, voice>>
    /\ trail' = NoTrail

\* mutant of SumWrite: a write that raises has wiped the stored summary
SumWriteLosingSummary(p) ==
    /\ req[p].pc = "sum_write"
    /\ \/ /\ chat_sessions' = WriteSummary(chat_sessions, req[p].sid,
                                  SummaryOf(req[p].block), req[p].qid)
          /\ Finish(p, "answer")
          /\ UNCHANGED faults
       \/ /\ MayFail /\ Raise
          /\ FinishLogged(p, "answer", "summary")
          /\ chat_sessions' = WriteSummary(chat_sessions, req[p].sid,
                                  None, req[p].qid)
    /\ UNCHANGED <<chat_history, nextOp, load, rag, voice>>
    /\ trail' = NoTrail

\* generate_conversation_summary: store the summary
SumWrite(p) ==
    /\ req[p].pc = "sum_write"
    /\ \/ /\ chat_sessions' = WriteSummary(chat_sessions, req[p].sid,
                                  SummaryOf(req[p].block), req[p].qid)
          /\ Finish(p, "answer")
          /\ UNCHANGED faults
       \/ /\ MayFail /\ Raise
          /\ FinishLogged(p, "answer", "summary")
          /\ UNCHANGED chat_sessions
    /\ UNCHANGED <<chat_history, nextOp, load, rag, voice>>
    /\ trail' = NoTrail

\* ------------------------------------------------- POST /api/chat/clear
StartClear(p) ==
    /\ Free(p, "clear")
    /\ \E cred \in load.creds, u \in load.users :
          IF ~get_current_user(cred, load.jwt_secret)
          THEN req' = [req EXCEPT ![p] = Rejected(cred, nextOp)]
          ELSE \/ \E s \in SessionIds(chat_sessions) :
                    req' = [req EXCEPT ![p] = [Idle EXCEPT
                                !.pc = "clear_delete", !.user = u, !.sid = s,
                                !.qid = nextOp, !.auth = cred]]
               \/ req' = [req EXCEPT ![p] = [Idle EXCEPT !.pc = "clear_user",
                                !.user = u, !.qid = nextOp, !.auth = cred]]
    /\ nextOp' = nextOp + 1
    /\ UNCHANGED <<chat_sessions, chat_history, faults, load, rag, voice>>
    /\ trail' = NoTrail

\* mutant of ClearDelete: the delete has lost its .eq("session_id", ...) filter
ClearDeleteUnfiltered(p) ==
    /\ req[p].pc = "clear_delete"
    /\ \/ /\ chat_history' = <<>>
          /\ Goto(p, "clear_reset")
          /\ UNCHANGED faults
       \/ /\ MayFail /\ Raise
          /\ Finish(p, "http_500")
          /\ UNCHANGED chat_history
    /\ UNCHANGED <<chat_sessions, nextOp, load, rag, voice>>
    /\ trail' = NoTrail

\* with session_id: delete the session's turns
ClearDelete(p) ==
    /\ req[p].pc = "clear_delete"
    /\ \/ /\ chat_history' =
                SelectSeq(chat_history, LAMBDA t : t.session_id # req[p].sid)
          /\ Goto(p, "clear_reset")
          /\ UNCHANGED faults
       \/ /\ MayFail /\ Raise
          /\ Finish(p, "http_500")
          /\ UNCHANGED chat_history
    /\ UNCHANGED <<chat_sessions, nextOp, load, rag, voice>>
    /\ trail' = NoTrail

\* with session_id: reset the session's message_count
ClearReset(p) ==
    /\ req[p].pc = "clear_reset"
    /\ \/ /\ chat_sessions' = ResetCount(chat_sessions, req[p].sid, req[p].qid)
          /\ Finish(p, "cleared")
          /\ UNCHANGED faults
       \/ /\ MayFail /\ Raise
          /\ Finish(p, "http_500")
          /\ UNCHANGED chat_sessions
    /\ UNCHANGED <<chat_history, nextOp, load, rag, voice>>
    /\ trail' = NoTrail

\* without session_id: delete all turns of the user (legacy behavior)
ClearUser(p) ==
    /\ req[p].pc = "clear_user"
    /\ \/ /\ chat_history' =
                SelectSeq(chat_history, LAMBDA t : t.user_id # req[p].user)
          /\ Finish(p, "cleared")
          /\ UNCHANGED faults
       \/ /\ MayFail /\ Raise
          /\ Finish(p, "http_500")
          /\ UNCHANGED chat_history
    /\ UNCHANGED <<chat_sessions, nextOp, load, rag, voice>>
    /\ trail' = NoTrail

\* ------------------------------------ POST /api/sessions/{id}/archive
StartArchive(p) ==
    /\ Free(p, "archive")
    /\ \E cred \in load.creds, u \in load.users,
          s \in SessionIds(chat_sessions) \cup {NoSession} :
          IF ~get_current_user(cred, load.jwt_secret)
          THEN req' = [req EXCEPT ![p] = Rejected(cred, nextOp)]
          ELSE req' = [req EXCEPT ![p] = [Idle EXCEPT !.pc = "archive_select",
                          !.user = u, !.sid = s, !.qid = nextOp,
                          !.auth = cred]]
    /\ nextOp' = nextOp + 1
    /\ UNCHANGED <<chat_sessions, chat_history, faults, load, rag, voice>>
    /\ trail' = NoTrail

\* the ownership select; .single() raises when no row matches
ArchiveOwned(ss, sid, u) == sid \in SessionIds(ss) /\ ss[sid].user_id = u

\* mutant of ArchiveSelect: the select has lost its .eq("user_id", ...) filter
ArchiveSelectAnyOwner(p) ==
    /\ req[p].pc = "archive_select"
    /\ \/ /\ req[p].sid \in SessionIds(chat_sessions)
          /\ Goto(p, "archive_update")
          /\ UNCHANGED faults
       \/ /\ req[p].sid \notin SessionIds(chat_sessions)
          /\ Finish(p, "http_500")
          /\ UNCHANGED faults
       \/ /\ MayFail /\ Raise
          /\ Finish(p, "http_500")
    /\ UNCHANGED <<chat_sessions, chat_history, nextOp, load, rag, voice>>
    /\ trail' = NoTrail

ArchiveSelect(p) ==
    /\ req[p].pc = "archive_select"
    /\ \/ /\ ArchiveOwned(chat_sessions, req[p].sid, req[p].user)
          /\ Goto(p, "archive_update")
          /\ UNCHANGED faults
       \/ /\ ~ArchiveOwned(chat_sessions, req[p].sid, req[p].user)
          /\ Finish(p, "http_500")
          /\ UNCHANGED faults
       \/ /\ MayFail /\ Raise
          /\ Finish(p, "http_500")
    /\ UNCHANGED <<chat_sessions, chat_history, nextOp, load, rag, voice>>
    /\ trail' = NoTrail

ArchiveUpdate(p) ==
    /\ req[p].pc = "archive_update"
    /\ \/ /\ chat_sessions' = SetArchived(chat_sessions, req[p].sid, req[p].qid)
          /\ Finish(p, "archived")
          /\ UNCHANGED faults
       \/ /\ MayFail /\ Raise
          /\ Finish(p, "http_500")
          /\ UNCHANGED chat_sessions
    /\ UNCHANGED <<chat_history, nextOp, load, rag, voice>>
    /\ trail' = NoTrail

\* ------------------------------------------------ GET /api/chat/history
\* get_chat_history: the newest `limit` rows of the user, oldest first
get_chat_history(h, u, limit) ==
    LastTurns(SelectSeq(h, LAMBDA t : t.user_id = u), limit)

StartHistory(p) ==
    /\ Free(p, "history")
    /\ \E cred \in load.creds, u \in load.users :
          IF ~get_current_user(cred, load.jwt_secret)
          THEN req' = [req EXCEPT ![p] = Rejected(cred, nextOp)]
          ELSE \/ \E s \in SessionIds(chat_sessions) :
                    req' = [req EXCEPT ![p] = [Idle EXCEPT
                                !.pc = "hist_turns", !.user = u, !.sid = s,
                                !.qid = nextOp, !.auth = cred]]
               \/ req' = [req EXCEPT ![p] = [Idle EXCEPT !.pc = "hist_user",
                                !.user = u, !.qid = nextOp, !.auth = cred]]
    /\ nextOp' = nextOp + 1
    /\ UNCHANGED <<chat_sessions, chat_history, faults, load, rag, voice>>
    /\ trail' = NoTrail

\* get_session_chat_history(session_id, limit=50): the select of the turns
HistTurns(p) ==
    /\ req[p].pc = "hist_turns"
    /\ \/ /\ req' = [req EXCEPT ![p].pc = "hist_summary",
                   ![p].hist.messages =
                       get_session_chat_history(chat_sessions, chat_history,
                           req[p].sid, HistoryLimit).messages]
          /\ UNCHANGED faults
       \/ /\ MayFail /\ Raise
          /\ req' = [req EXCEPT ![p].pc = "done", ![p].resp = "history",
                   ![p].hist = NoHistory, ![p].logged = "history"]
    /\ UNCHANGED <<chat_sessions, chat_history, nextOp, load, rag, voice>>
    /\ trail' = NoTrail

\* get_session_chat_history: the select of the summary; when it raises, the
\* turns already read are dropped too
HistSummary(p) ==
    /\ req[p].pc = "hist_summary"
    /\ \/ /\ req' = [req EXCEPT ![p].pc = "done", ![p].resp = "history",
                   ![p].hist.summary =
                       get_session_chat_history(chat_sessions, chat_history,
                           req[p].sid, HistoryLimit).summary]
          /\ UNCHANGED faults
       \/ /\ MayFail /\ Raise
          /\ req' = [req EXCEPT ![p].pc = "done", ![p].resp = "history",
                   ![p].hist = NoHistory, ![p].logged = "history"]
    /\ UNCHANGED <<chat_sessions, chat_history, nextOp, load, rag, voice>>
    /\ trail' = NoTrail

\* without session_id: get_chat_history(user_id, limit=50)
HistUser(p) ==
    /\ req[p].pc = "hist_user"
    /\ \/ /\ req' = [req EXCEPT ![p].pc = "done", ![p].resp = "history",
                   ![p].hist.messages =
                       get_chat_history(chat_history, req[p].user, HistoryLimit)]
          /\ UNCHANGED faults
       \/ /\ MayFail /\ Raise
          /\ req' = [req EXCEPT ![p].pc = "done", ![p].resp = "history",
                   ![p].hist = NoHistory, ![p].logged = "history"]
    /\ UNCHANGED <<chat_sessions, chat_history, nextOp, load, rag, voice>>
    /\ trail' = NoTrail

\* ------------------------------- POST /api/chat/clear of src/main.py
\* its get_current_user refuses nobody
StartRootClear(p) ==
    /\ Free(p, "root_clear")
    /\ \E cred \in load.creds, u \in load.users :
          req' = [req EXCEPT ![p] = [Idle EXCEPT !.pc = "root_clear",
                      !.user = get_current_user_dev(cred, u),
                      !.qid = nextOp, !.auth = cred]]
    /\ nextOp' = nextOp + 1
    /\ UNCHANGED <<chat_sessions, chat_history, faults, load, rag, voice>>
    /\ trail' = NoTrail

\* delete all turns of the user
RootClear(p) ==
    /\ req[p].pc = "root_clear"
    /\ \/ /\ chat_history' =
                SelectSeq(chat_history, LAMBDA t : t.user_id # req[p].user)
          /\ Finish(p, "cleared")
          /\ UNCHANGED faults
       \/ /\ MayFail /\ Raise
          /\ Finish(p, "http_500")
          /\ UNCHANGED chat_history
    /\ UNCHANGED <<chat_sessions, nextOp, load, rag, voice>>
    /\ trail' = NoTrail

Next ==
    \/ \E p \in Procs : StartChat(p)
    \/ \E p \in Procs : GocSelect(p)
    \/ \E p \in Procs : GocUpdate(p)
    \/ \E p \in Procs : GocInsert(p)
    \/ \E p \in Procs : Embed(p)
    \/ \E p \in Procs : EmbedFallback(p)
    \/ \E p \in Procs : VectorSearch(p)
    \/ \E p \in Procs : LLMCall(p)
    \/ \E p \in Procs : UserInsert(p)
    \/ \E p \in Procs : UserCount(p)
    \/ \E p \in Procs : UserTouch(p)
    \/ \E p \in Procs : AsstInsert(p)
    \/ \E p \in Procs : AsstTouch(p)
    \/ \E p \in Procs : AsstCount(p)
    \/ \E p \in Procs : SumFetch(p)
    \/ \E p \in Procs : SumGenerate(p)
    \/ \E p \in Procs : SumWrite(p)
    \/ \E p \in Procs : StartClear(p)
    \/ \E p \in Procs : ClearDelete(p)
    \/ \E p \in Procs : ClearReset(p)
    \/ \E p \in Procs : ClearUser(p)
    \/ \E p \in Procs : StartArchive(p)
    \/ \E p \in Procs : ArchiveSelect(p)
    \/ \E p \in Procs : ArchiveUpdate(p)
    \/ \E p \in Procs : StartHistory(p)
    \/ \E p \in Procs : HistTurns(p)
    \/ \E p \in Procs : HistSummary(p)
    \/ \E p \in Procs : HistUser(p)
    \/ \E p \in Procs : StartRootClear(p)
    \/ \E p \in Procs : RootClear(p)

Spec == Init /\ [][Next]_vars

\* ------------------------------------------------ src/rag.py: chunk_text
\* A str is the sequence of its characters.
NL == "\n"
Alphabet == {"a", ".", NL}       \* a letter, a sentence end, a line break
Whitespace == {" ", NL}
SentenceEnd == {".", "!", "?"}
ParaBreak == <<NL, NL>>
Blank == <<" ">>

RECURSIVE lstrip(_)
lstrip(s) ==
    IF s # <<>> /\ Head(s) \in Whitespace THEN lstrip(Tail(s)) ELSE s

RECURSIVE rstrip(_)
rstrip(s) ==
    IF s # <<>> /\ s[Len(s)] \in Whitespace
    THEN rstrip(SubSeq(s, 1, Len(s) - 1)) ELSE s

\* str.strip()
strip(s) == rstrip(lstrip(s))

RECURSIVE SplitParagraphs(_, _)
\* text.split('\n\n'): cur is the piece being read
SplitParagraphs(s, cur) ==
    IF s = <<>> THEN <<cur>>
    ELSE IF Len(s) >= 2 /\ SubSeq(s, 1, 2) = ParaBreak
         THEN <<cur>> \o SplitParagraphs(SubSeq(s, 3, Len(s)), <<>>)
         ELSE SplitParagraphs(Tail(s), Append(cur, Head(s)))

\* [p.strip() for p in text.split('\n\n') if p.strip()]
paragraphs(text) ==
    LET raw == SplitParagraphs(text, <<>>)
    IN  SelectSeq([i \in 1..Len(raw) |-> strip(raw[i])], LAMBDA p : p # <<>>)

RECURSIVE SplitSentences(_, _)
\* re.split(r'(?<=[.!?])\s+', content): cur is the piece being read
SplitSentences(s, cur) ==
    IF s = <<>> THEN <<cur>>
    ELSE IF /\ cur # <<>>
            /\ cur[Len(cur)] \in SentenceEnd
            /\ Head(s) \in Whitespace
         THEN <<cur>> \o SplitSentences(lstrip(s), <<>>)
         ELSE SplitSentences(Tail(s), Append(cur, Head(s)))

TextChunk(content, chunk_index, start_char, end_char) ==
    [content |-> content, chunk_index |-> chunk_index,
     start_char |-> start_char, end_char |-> end_char]

\* current_chunk[-overlap:] for 0 < overlap < len(current_chunk)
LastChars(s, n) == SubSeq(s, Len(s) - n + 1, Len(s))

\* one pass of `for para in paragraphs` over the loop's variables
ParagraphStep(st, para, max_chunk_size, overlap) ==
    IF /\ st.current_chunk # <<>>
       /\ Len(st.current_chunk) + 2 + Len(para) > max_chunk_size
    THEN LET end_char == st.current_start + Len(st.current_chunk)
             grown == Append(st.chunks,
                         TextChunk(strip(st.current_chunk), st.chunk_index,
                                   st.current_start, end_char))
         IN  IF overlap > 0 /\ Len(st.current_chunk) > overlap
             THEN [chunks |-> grown,
                   current_chunk |->
                       LastChars(st.current_chunk, overlap) \o ParaBreak \o para,
                   current_start |-> end_char - overlap,
                   chunk_index |-> st.chunk_index + 1]
             ELSE [chunks |-> grown,
                   current_chunk |-> para,
                   current_start |-> end_char,
                   chunk_index |-> st.chunk_index + 1]
    ELSE [st EXCEPT !.current_chunk =
             IF st.current_chunk # <<>> THEN st.current_chunk \o ParaBreak \o para
             ELSE para]

RECURSIVE ParagraphLoop(_, _, _, _, _)
ParagraphLoop(paras, i, st, max_chunk_size, overlap) ==
    IF i > Len(paras) THEN st
    ELSE ParagraphLoop(paras, i + 1,
             ParagraphStep(st, paras[i], max_chunk_size, overlap),
             max_chunk_size, overlap)

\* the paragraph-level chunks, the final one included
ParagraphChunks(text, max_chunk_size, overlap) ==
    LET st == ParagraphLoop(paragraphs(text), 1,
                  [chunks |-> <<>>, current_chunk |-> <<>>,
                   current_start |-> 0, chunk_index |-> 0],
                  max_chunk_size, overlap)
    IN  IF st.current_chunk # <<>>
        THEN Append(st.chunks,
                 TextChunk(strip(st.current_chunk), st.chunk_index,
                           st.current_start,
                           st.current_start + Len(st.current_chunk)))
        ELSE st.chunks

\* one pass of `for sentence in sentences` over the loop's variables
SentenceStep(st, sentence, max_chunk_size) ==
    IF /\ st.sub_chunk # <<>>
       /\ Len(st.sub_chunk) + 1 + Len(sentence) > max_chunk_size
    THEN [out |-> Append(st.out,
                     TextChunk(strip(st.sub_chunk), st.sub_index, st.sub_start,
                               st.sub_start + Len(st.sub_chunk))),
          sub_chunk |-> sentence,
          sub_start |-> st.sub_start + Len(st.sub_chunk),
          sub_index |-> st.sub_index + 1]
    ELSE [st EXCEPT !.sub_chunk =
             IF st.sub_chunk # <<>> THEN st.sub_chunk \o Blank \o sentence
             ELSE sentence]

RECURSIVE SentenceLoop(_, _, _, _)
SentenceLoop(sentences, i, st, max_chunk_size) ==
    IF i > Len(sentences) THEN st
    ELSE SentenceLoop(sentences, i + 1,
             SentenceStep(st, sentences[i], max_chunk_size), max_chunk_size)

\* what `for chunk in chunks` adds to final_chunks for one chunk
Resplit(chunk, max_chunk_size) ==
    IF Len(chunk.content) <= max_chunk_size THEN <<chunk>>
    ELSE LET st == SentenceLoop(SplitSentences(chunk.content, <<>>), 1,
                       [out |-> <<>>, sub_chunk |-> <<>>,
                        sub_start |-> chunk.start_char,
                        sub_index |-> chunk.chunk_index],
                       max_chunk_size)
         IN  IF st.sub_chunk # <<>>
             THEN Append(st.out,
                      TextChunk(strip(st.sub_chunk), st.sub_index, st.sub_start,
                                st.sub_start + Len(st.sub_chunk)))
             ELSE st.out

RECURSIVE FinalChunks(_, _, _)
FinalChunks(chunks, i, max_chunk_size) ==
    IF i > Len(chunks) THEN <<>>
    ELSE Resplit(chunks[i], max_chunk_size)
             \o FinalChunks(chunks, i + 1, max_chunk_size)

chunk_text(text, max_chunk_size, overlap) ==
    IF strip(text) = <<>> THEN <<>>
    ELSE FinalChunks(ParagraphChunks(strip(text), max_chunk_size, overlap), 1,
                     max_chunk_size)

\* every document of at most MaxTextLen characters
Documents == UNION {[1..n -> Alphabet] : n \in 0..MaxTextLen}

\* a document is handed to the chunker
InitChunk ==
    /\ rag \in [stage : {"input"}, text : Documents,
                max_chunk_size : 1..MaxChunkSize, overlap : 0..MaxOverlap,
                chunks : {<<>>}]
    /\ voice = NoVoice
    /\ chat_sessions = <<>>
    /\ chat_history = <<>>
    /\ req = [p \in Procs |-> Idle]
    /\ nextOp = 1
    /\ faults = 0
    /\ load = [prior |-> 0, users |-> {}, chapters |-> {}, kinds |-> {},
               slots |-> {}, ops |-> 0, faults |-> 0, creds |-> {},
               jwt_secret |-> TRUE]
    /\ trail = NoTrail

\* chunk_text(text, max_chunk_size, overlap) is called
ChunkText ==
    /\ rag.stage = "input"
    /\ rag' = [rag EXCEPT !.stage = "chunked",
                          !.chunks = chunk_text(rag.text, rag.max_chunk_size,
                                                rag.overlap)]
    /\ UNCHANGED <<chat_sessions, chat_history, req, nextOp, faults, load,
                   trail, voice>>

NextChunk == ChunkText

SpecChunk == InitChunk /\ [][NextChunk]_vars

\* ---------------------------------------------------------------- retriever
\* Similarities and distances are counted in tenths: Scale is similarity 1.
Scale == 10
ChatThreshold == 3       \* "match_threshold": 0.3
MatchCount == 5          \* "match_count": 5

\* 'similarity_score': 1 - row['distance']
similarity_score(distance) == Scale - distance

\* the rows of the chunks table: row i has cosine distance corpus[i] to the
\* query embedding
Corpora == UNION {[1..n -> 0..MaxDistance] : n \in 0..MaxCorpus}

\* SELECT ... FROM chunks ORDER BY embedding <=> $1 LIMIT $2 over the rows
\* `rows`: every answer the database may give (rows of equal distance come in
\* any order)
OrderByLimit(corpus, rows, limit) ==
    LET n == Min(limit, Cardinality(rows))
    IN  {r \in [1..n -> rows] :
            /\ \A i, j \in 1..n : i < j =>
                  /\ r[i] # r[j]
                  /\ corpus[r[i]] <= corpus[r[j]]
            /\ \A k \in rows \ {r[i] : i \in 1..n} :
                  \A i \in 1..n : corpus[r[i]] <= corpus[k]}

\* the list retrieve_chunks builds from the rows fetched
ResultChunks(corpus, r) ==
    [i \in 1..Len(r) |->
        [id |-> r[i], similarity_score |-> similarity_score(corpus[r[i]])]]

\* the rows match_chunks may return: those at or above match_threshold
Eligible(corpus, match_threshold) ==
    {i \in 1..Len(corpus) : similarity_score(corpus[i]) >= match_threshold}

\* a query is handed to one of the two retrievers
InitRetrieve ==
    /\ rag \in
         [stage : {"query"}, retriever : {"retrieve_chunks"},
          corpus : Corpora, top_k : 0..MaxTopK,
          similarity_threshold : {ChatThreshold}, results : {<<>>}]
         \cup
         [stage : {"embedded"}, retriever : {"match_chunks"},
          corpus : Corpora, top_k : {MatchCount},
          similarity_threshold : {ChatThreshold}, results : {<<>>}]
    /\ voice = NoVoice
    /\ chat_sessions = <<>>
    /\ chat_history = <<>>
    /\ req = [p \in Procs |-> Idle]
    /\ nextOp = 1
    /\ faults = 0
    /\ load = [prior |-> 0, users |-> {}, chapters |-> {}, kinds |-> {},
               slots |-> {}, ops |-> 0, faults |-> 0, creds |-> {},
               jwt_secret |-> TRUE]
    /\ trail = NoTrail

\* query_embedding = await embed_text(query): the embedding service answers
\* or raises
EmbedText ==
    /\ rag.stage = "query"
    /\ \/ rag' = [rag EXCEPT !.stage = "embedded"]
       \/ rag' = [rag EXCEPT !.stage = "raised"]
    /\ UNCHANGED <<chat_sessions, chat_history, req, nextOp, faults, load,
                   trail, voice>>

\* retrieve_chunks with a fetch that has no ORDER BY: any top_k rows, in any
\* order
RetrieveChunksUnordered ==
    /\ rag.stage = "embedded"
    /\ rag.retriever = "retrieve_chunks"
    /\ \E r \in [1..Min(rag.top_k, Len(rag.corpus)) -> 1..Len(rag.corpus)] :
          /\ \A i, j \in DOMAIN r : i < j => r[i] # r[j]
          /\ rag' = [rag EXCEPT !.stage = "returned",
                                !.results = ResultChunks(rag.corpus, r)]
    /\ UNCHANGED <<chat_sessions, chat_history, req, nextOp, faults, load,
                   trail, voice>>

\* the fetch of retrieve_chunks and the list built from it
RetrieveChunks ==
    /\ rag.stage = "embedded"
    /\ rag.retriever = "retrieve_chunks"
    /\ \E r \in OrderByLimit(rag.corpus, 1..Len(rag.corpus), rag.top_k) :
          rag' = [rag EXCEPT !.stage = "returned",
                             !.results = ResultChunks(rag.corpus, r)]
    /\ UNCHANGED <<chat_sessions, chat_history, req, nextOp, faults, load,
                   trail, voice>>

\* step 3 of chat: supabase.rpc("match_chunks", ...) answers or raises
MatchChunks ==
    /\ rag.stage = "embedded"
    /\ rag.retriever = "match_chunks"
    /\ \/ \E r \in OrderByLimit(rag.corpus,
                       Eligible(rag.corpus, rag.similarity_threshold),
                       rag.top_k) :
             rag' = [rag EXCEPT !.stage = "returned",
                                !.results = ResultChunks(rag.corpus, r)]
       \/ rag' = [rag EXCEPT !.stage = "error_search"]
    /\ UNCHANGED <<chat_sessions, chat_history, req, nextOp, faults, load,
                   trail, voice>>

NextRetrieve ==
    \/ EmbedText
    \/ RetrieveChunks
    \/ MatchChunks

SpecRetrieve == InitRetrieve /\ [][NextRetrieve]_vars

\* -------------------------------------------------------------- voice relay
\* Texts are sequences of words.

\* the message get_gemini_tutoring_response returns from its except branch
FallbackMessage ==
    <<"I", "had", "trouble", "understanding", "your", "question.",
      "Could", "you", "try", "rephrasing", "it?">>

\* the prefix process_openai_to_client takes for the mark of an error
ErrorPrefix == <<"I'm", "having", "trouble">>

\* str.startswith
startswith(s, prefix) ==
    /\ Len(s) >= Len(prefix)
    /\ SubSeq(s, 1, Len(prefix)) = prefix

\* answers of the generation service
Answers ==
    {<<"What", "do", "you", "notice", "first?">>,
     <<"I", "had", "a", "similar", "question.">>,
     <<"I'm", "having", "trouble", "seeing", "your", "step.">>}

\* a voice session of u1 on an active session without turns; no welcome
\* greeting and no accessibility settings
InitVoice ==
    /\ voice = [stage |-> "listening", failed |-> FALSE, answer |-> <<>>,
                tts_input |-> <<>>, events |-> 0, sent |-> <<>>]
    /\ rag = NoRag
    /\ chat_sessions = <<NewSession("u1", "c1", 0)>>
    /\ chat_history = <<>>
    /\ req = [p \in Procs |-> Idle]
    /\ nextOp = 1
    /\ faults = 0
    /\ load = [prior |-> 0, users |-> {}, chapters |-> {}, kinds |-> {},
               slots |-> {}, ops |-> 0, faults |-> 0, creds |-> {},
               jwt_secret |-> TRUE]
    /\ trail = NoTrail

\* a conversation.item.input_audio_transcription.completed event: the
\* transcript is forwarded to the client
Transcription ==
    /\ voice.stage = "listening"
    /\ voice.events < MaxEvents
    /\ voice' = [voice EXCEPT
                    !.stage = "tutoring",
                    !.events = @ + 1,
                    !.failed = FALSE,
                    !.answer = <<>>,
                    !.tts_input = <<>>,
                    !.sent = Append(@, [type |-> "user_transcript",
                                        text |-> <<>>, is_error |-> FALSE])]
    /\ UNCHANGED <<chat_sessions, chat_history, req, nextOp, faults, load,
                   trail, rag>>

\* get_gemini_tutoring_response: the answer with both turns saved, the
\* answer with the saves having raised (they swallow it), or, when the
\* embedding, the search or the generation raised, the fallback message
GeminiTutoringResponse ==
    /\ voice.stage = "tutoring"
    /\ \/ \E a \in Answers :
             LET st == ExchangeDone([h |-> chat_history, s |-> chat_sessions],
                                    "u1", 1, nextOp)
             IN  /\ voice' = [voice EXCEPT !.stage = "responding",
                                           !.answer = a]
                 /\ \/ /\ chat_history' = st.h
                       /\ chat_sessions' = st.s
                    \/ UNCHANGED <<chat_history, chat_sessions>>
       \/ /\ voice' = [voice EXCEPT !.stage = "responding",
                                    !.answer = FallbackMessage,
                                    !.failed = TRUE]
          /\ UNCHANGED <<chat_history, chat_sessions>>
    /\ nextOp' = nextOp + 1
    /\ UNCHANGED <<req, faults, load, trail, rag>>

\* the response text goes to the client with its is_error flag; an error
\* response is not spoken
SendResponseText ==
    /\ voice.stage = "responding"
    /\ LET is_error_response == startswith(voice.answer, ErrorPrefix)
       IN  voice' = [voice EXCEPT
                        !.stage = IF is_error_response THEN "listening"
                                  ELSE "tts",
                        !.sent = Append(@, [type |-> "ai_response_text",
                                            text |-> voice.answer,
                                            is_error |-> is_error_response])]
    /\ UNCHANGED <<chat_sessions, chat_history, req, nextOp, faults, load,
                   trail, rag>>

\* openai_client.audio.speech.create(input=gemini_response): the audio goes
\* to the client, or the call raises and the failure is logged
TextToSpeech ==
    /\ voice.stage = "tts"
    /\ \/ voice' = [voice EXCEPT
                       !.stage = "listening",
                       !.tts_input = voice.answer,
                       !.sent = Append(@, [type |-> "tts_audio",
                                           text |-> voice.answer,
                                           is_error |-> FALSE])]
       \/ voice' = [voice EXCEPT !.stage = "listening",
                                 !.tts_input = voice.answer]
    /\ UNCHANGED <<chat_sessions, chat_history, req, nextOp, faults, load,
                   trail, rag>>

NextVoice ==
    \/ Transcription
    \/ GeminiTutoringResponse
    \/ SendResponseText
    \/ TextToSpeech

SpecVoice == InitVoice /\ [][NextVoice]_vars

\* ------------------------------------------------------------------ claims
InFlight(p) == req[p].pc \notin {"idle", "done"}
Quiet == \A p \in Procs : ~InFlight(p)

\* C1: in every reachable state, under any interleaving of chat requests, no
\* (user, chapter) scope has more than one session with status active.
C1_AtMostOneActiveSession ==
    \A u \in Users, c \in Chapters :
        Cardinality(ActiveMatches(chat_sessions, u, c)) <= 1

\* C2: two get_or_create_session calls for the same scope, run back to back
\* with nothing interleaved, return the same session id, and the scope then
\* has exactly one active session.
C2_BackToBackSameSession ==
    trail.stage = 4 => trail.second = trail.first /\ trail.active = 1

\* C3: an archived session stays archived in every step; the select of
\* get_or_create_session never returns a session that is archived; and the
\* session a call creates has an id no existing session has, and is active.
C3_ArchivedIsTerminal ==
    [][/\ \A s \in SessionIds(chat_sessions) :
             chat_sessions[s].status = "archived"
                 => /\ s \in SessionIds(chat_sessions')
                    /\ chat_sessions'[s].status = "archived"
       /\ \A p \in Procs :
             /\ req[p].pc = "goc_select" /\ req'[p].pc = "goc_update"
                   => /\ req'[p].sid \in SessionIds(chat_sessions)
                      /\ chat_sessions[req'[p].sid].status # "archived"
             /\ req[p].pc = "goc_insert" /\ req'[p].pc = "embed"
                   => /\ req'[p].sid \notin SessionIds(chat_sessions)
                      /\ req'[p].sid \in SessionIds(chat_sessions')
                      /\ chat_sessions'[req'[p].sid].status = "active"]_vars

\* C3 happens: a session of a scope is archived and a later chat request of
\* the same scope has been given a new, active session.
C3_Witness ==
    \E p \in Procs, s \in SessionIds(chat_sessions) :
        /\ req[p].pc = "embed"
        /\ req[p].sid \in SessionIds(chat_sessions)
        /\ req[p].sid > s
        /\ chat_sessions[s].status = "archived"
        /\ chat_sessions[s].user_id = req[p].user
        /\ chat_sessions[s].chapter_id = req[p].chapter
        /\ chat_sessions[req[p].sid].status = "active"

UserTurnCount(h, sid) ==
    Len(SelectSeq(h, LAMBDA t : t.session_id = sid /\ t.role = "user"))

\* C4: with no request in flight and no downstream call having raised, every
\* session's message_count equals the number of its stored role=user turns.
C4_CountEqualsUserTurns ==
    (Quiet /\ faults = 0) =>
        \A s \in SessionIds(chat_sessions) :
            chat_sessions[s].message_count = UserTurnCount(chat_history, s)

TurnsOfQuestion(h, q) == {i \in 1..Len(h) : h[i].qid = q}

\* C5: a chat request whose generation call failed is over, answers with the
\* rephrase message and has no turn in the log, now or later; and no step a
\* chat request takes up to and including its generation call changes the
\* log, or the message_count or conversation_summary of an existing session.
C5_FailedGenerationPersistsNothing ==
    /\ [](\A p \in Procs :
             req[p].resp = "fallback" =>
                 /\ req[p].pc = "done"
                 /\ TurnsOfQuestion(chat_history, req[p].qid) = {})
    /\ [][\A p \in Procs :
             /\ req[p].pc \in {"goc_select", "goc_update", "goc_insert", "embed",
                               "embed_fallback", "search", "llm"}
             /\ req'[p] # req[p]
             => /\ chat_history' = chat_history
                /\ \A s \in SessionIds(chat_sessions) :
                      /\ chat_sessions'[s].message_count
                            = chat_sessions[s].message_count
                      /\ chat_sessions'[s].conversation_summary
                            = chat_sessions[s].conversation_summary]_vars

\* C5 happens: the generation call of a request failed after earlier
\* exchanges were stored.
C5_Witness ==
    \E p \in Procs :
        /\ req[p].resp = "fallback"
        /\ req[p].sid \in SessionIds(chat_sessions)
        /\ chat_sessions[req[p].sid].message_count > 0
        /\ SessionTurns(chat_history, req[p].sid) # <<>>

\* C6: every assistant turn in the log is preceded by the user turn of the
\* same question in the same session.
C6_AssistantTurnHasUserTurn ==
    \A i \in 1..Len(chat_history) :
        chat_history[i].role = "assistant" =>
            \E j \in 1..(i - 1) :
                /\ chat_history[j].role = "user"
                /\ chat_history[j].qid = chat_history[i].qid
                /\ chat_history[j].session_id = chat_history[i].session_id

SaveStagePcs == {"asst_insert", "asst_touch", "asst_count", "sum_fetch",
                 "sum_generate", "sum_write"}

\* C7: the user-turn insert appends exactly the user turn, as the first turn
\* stored for its question; the counter step after it raises the session's
\* message_count by exactly 1 and no other session's; the assistant-turn
\* insert appends exactly the assistant turn, after the question's user turn
\* and nothing else of the question; and no step of the assistant-turn save
\* changes any message_count.
C7_TwoTurnsOneIncrement ==
    [][\A p \in Procs :
          /\ (req[p].pc = "user_insert" /\ req'[p].pc = "user_count")
                => /\ chat_history' = Append(chat_history,
                          [user_id |-> req[p].user, session_id |-> req[p].sid,
                           role |-> "user", qid |-> req[p].qid])
                   /\ chat_sessions' = chat_sessions
                   /\ TurnsOfQuestion(chat_history, req[p].qid) = {}
          /\ (req[p].pc = "user_count" /\ req'[p].pc = "user_touch")
                => /\ chat_history' = chat_history
                   /\ \A s \in SessionIds(chat_sessions) :
                         chat_sessions'[s].message_count =
                             chat_sessions[s].message_count
                                 + (IF s = req[p].sid THEN 1 ELSE 0)
          /\ (req[p].pc = "asst_insert" /\ req'[p].pc = "asst_touch")
                => /\ chat_history' = Append(chat_history,
                          [user_id |-> req[p].user, session_id |-> req[p].sid,
                           role |-> "assistant", qid |-> req[p].qid])
                   /\ Cardinality(TurnsOfQuestion(chat_history, req[p].qid)) <= 1
                   /\ \A i \in TurnsOfQuestion(chat_history, req[p].qid) :
                         /\ chat_history[i].role = "user"
                         /\ chat_history[i].session_id = req[p].sid
          /\ (req[p].pc \in SaveStagePcs /\ req'[p] # req[p])
                => \A s \in SessionIds(chat_sessions) :
                      chat_sessions'[s].message_count
                          = chat_sessions[s].message_count]_vars

\* C7 happens: a request with no failed call has answered, its two turns end
\* the log, user turn first, and the session counts one message more than
\* the exchanges it started with.
C7_Witness ==
    \E p \in Procs :
        /\ faults = 0
        /\ req[p].pc = "done" /\ req[p].resp = "answer"
        /\ Len(chat_history) >= 2
        /\ chat_history[Len(chat_history) - 1] =
              [user_id |-> req[p].user, session_id |-> req[p].sid,
               role |-> "user", qid |-> req[p].qid]
        /\ chat_history[Len(chat_history)] =
              [user_id |-> req[p].user, session_id |-> req[p].sid,
               role |-> "assistant", qid |-> req[p].qid]
        /\ chat_sessions[req[p].sid].message_count = load.prior + 1

\* positions [lo, hi) of seq, counted from 0, as far as seq reaches
Positions(seq, lo, hi) ==
    LET top == IF hi <= Len(seq) THEN hi ELSE Len(seq)
    IN  [i \in 1..(top - lo) |-> seq[lo + i]]

TenExchanges(s) ==
    LET turns == SessionTurns(chat_history, s)
    IN  /\ chat_sessions[s].message_count = 10
        /\ Len(turns) = 20
        /\ \A k \in 1..10 : /\ turns[2 * k - 1].role = "user"
                            /\ turns[2 * k].role = "assistant"
                            /\ turns[2 * k - 1].qid = turns[2 * k].qid

InRecent(s, t) ==
    LET recent == get_session_chat_history(chat_sessions, chat_history, s,
                                           DefaultLimit).messages
    IN  \E j \in 1..Len(recent) : recent[j] = t

\* C9: once a session holds exactly ten successful exchanges and nothing is
\* in flight, its summary covers turns 1-4 and turns 5-10 are among the
\* recent turns of get_session_chat_history, counting a turn either as one
\* message or as one exchange (a user turn with its reply).
C9_TenExchangesSummaryAndWindow ==
    \A s \in SessionIds(chat_sessions) :
        (Quiet /\ faults = 0 /\ TenExchanges(s)) =>
            LET turns == SessionTurns(chat_history, s)
            IN  \/ /\ chat_sessions[s].conversation_summary
                         = SummaryOf(SubSeq(turns, 1, 4))
                   /\ \A i \in 5..10 : InRecent(s, turns[i])
                \/ /\ chat_sessions[s].conversation_summary
                         = SummaryOf(SubSeq(turns, 1, 8))
                   /\ \A i \in 9..20 : InRecent(s, turns[i])

\* every turn of session s is among the newest DefaultLimit turns or in the
\* block the session's summary was computed from
Covered(ss, h, s) ==
    LET turns == SessionTurns(h, s)
        recent == get_session_chat_history(ss, h, s, DefaultLimit).messages
        block == ss[s].conversation_summary
    IN  \A i \in 1..Len(turns) :
            \/ \E j \in 1..Len(recent) : recent[j] = turns[i]
            \/ \E j \in 1..Len(block) : block[j] = turns[i]

\* C10: right after a summary is stored, every turn of the session is among
\* the 6 most recent turns or inside the block the summary was computed from.
C10_SummaryPlusWindowCoverLog ==
    [][\A p \in Procs :
          (req[p].pc = "sum_write" /\ req'[p] # req[p] /\ faults' = faults)
              => Covered(chat_sessions', chat_history', req[p].sid)]_vars

\* C11: when a triggered summarization cuts its block, no turn of the block is
\* among the 6 newest turns the session's log holds at that moment.
C11_BlockExcludesRecentSix ==
    [][\A p \in Procs :
          (req[p].pc = "sum_fetch" /\ req'[p].pc = "sum_generate")
              => LET turns == SessionTurns(chat_history, req[p].sid)
                 IN  \A i \in 1..Len(turns), j \in 1..Len(req'[p].block) :
                        i > Len(turns) - 6 => req'[p].block[j] # turns[i]]_vars

\* the contract of a history read of session s with window size w, against
\* result r: at most w turns, the newest of the session's log, oldest first,
\* and the session's summary (none for an id no session has)
NewestWindow(ss, h, s, w, r) ==
    LET log == SelectSeq(h, LAMBDA t : t.session_id = s)
        n == IF w <= Len(log) THEN w ELSE Len(log)
    IN  /\ Len(r.messages) = n
        /\ \A k \in 1..n : r.messages[k] = log[Len(log) - n + k]
        /\ r.summary = IF s \in SessionIds(ss)
                       THEN ss[s].conversation_summary ELSE None

\* C12: a history read whose store calls succeed returns at most w turns, the
\* w newest of the session (all if it has fewer), oldest first, with the
\* session's conversation_summary or none: for the chat handler's read (w = 6),
\* for the history endpoint's two selects (w = 50), and for every window size
\* up to MaxWindow on the store the endpoint reads.
C12_HistoryIsNewestWindow ==
    [][\A p \in Procs :
          /\ (req[p].pc = "llm" /\ req'[p].pc = "user_insert"
                  /\ faults' = faults)
                => NewestWindow(chat_sessions, chat_history, req[p].sid, 6,
                                req'[p].hist)
          /\ (req[p].pc = "hist_turns" /\ req'[p].pc = "hist_summary")
                => /\ NewestWindow(chat_sessions, chat_history, req[p].sid, 50,
                          [messages |-> req'[p].hist.messages,
                           summary |-> chat_sessions[req[p].sid]
                                           .conversation_summary])
                   /\ \A w \in 0..MaxWindow,
                         s \in SessionIds(chat_sessions) \cup {NoSession} :
                         NewestWindow(chat_sessions, chat_history, s, w,
                             get_session_chat_history(chat_sessions,
                                 chat_history, s, w))
          /\ (req[p].pc = "hist_summary" /\ req'[p].pc = "done"
                  /\ faults' = faults)
                => /\ req'[p].hist.messages = req[p].hist.messages
                   /\ req'[p].hist.summary =
                          chat_sessions[req[p].sid].conversation_summary]_vars

\* C12 happens: a chat request has read the 6 newest of more than 6 turns
\* together with a stored summary.
C12_Witness ==
    \E p \in Procs :
        /\ req[p].pc = "user_insert"
        /\ Len(req[p].hist.messages) = 6
        /\ Len(SessionTurns(chat_history, req[p].sid)) > 6
        /\ req[p].hist.summary # None

SummarizingPcs == {"sum_fetch", "sum_generate", "sum_write"}

\* C13: when a store call or the generation call of a triggered summarization
\* raises, the request ends with its answer, the log still holds the
\* assistant turn that triggered it, and no session row changes; and until
\* the summary write no step of the summarization changes a stored summary.
C13_SummaryFailureKeepsTurnAndSummary ==
    [][\A p \in Procs :
          /\ (req[p].pc \in SummarizingPcs /\ req'[p] # req[p]
                  /\ faults' # faults)
                => /\ req'[p].pc = "done" /\ req'[p].resp = "answer"
                   /\ chat_sessions' = chat_sessions
                   /\ chat_history' = chat_history
                   /\ \E i \in 1..Len(chat_history') :
                         chat_history'[i] =
                             [user_id |-> req[p].user,
                              session_id |-> req[p].sid,
                              role |-> "assistant", qid |-> req[p].qid]
          /\ (req[p].pc \in {"asst_count", "sum_fetch", "sum_generate"}
                  /\ req'[p] # req[p])
                => \A s \in SessionIds(chat_sessions) :
                      chat_sessions'[s].conversation_summary
                          = chat_sessions[s].conversation_summary]_vars

\* C13 happens: a request whose save found message_count 10 has answered
\* after its summarization failed; its assistant turn ends the log and the
\* session has the summary it had before, none.
C13_Witness ==
    \E p \in Procs :
        /\ req[p].pc = "done" /\ req[p].resp = "answer"
        /\ req[p].logged = "summary"
        /\ chat_sessions[req[p].sid].message_count = 10
        /\ chat_sessions[req[p].sid].conversation_summary = None
        /\ chat_history[Len(chat_history)] =
              [user_id |-> req[p].user, session_id |-> req[p].sid,
               role |-> "assistant", qid |-> req[p].qid]

\* C14: a request that came without a valid bearer credential is never inside
\* a handler and never answered by one: it is the request get_current_user
\* refused with 401, for which no store, embedding or generation call is made.
C14_NoWorkWithoutCredential ==
    \A p \in Procs :
        req[p].auth # "valid" =>
            req[p].pc = "done" /\ req[p].resp = "http_401"

\* C15: whether or not the vector-search store query of a chat request
\* raises, the request goes on to the generation call (with an empty context
\* when it raised).
C15_SearchFailureDegrades ==
    [][\A p \in Procs :
          (req[p].pc = "search" /\ req'[p] # req[p])
              => req'[p].pc = "llm"]_vars

PersistPcs == {"user_insert", "user_count", "user_touch",
               "asst_insert", "asst_touch", "asst_count"}

\* C16: once generation has succeeded, a turn insert, counter update or
\* other store call of the two saves that raises changes nothing in the
\* store and raises nothing to the caller: the request goes on to its next
\* save or ends, and it can only end with the generated answer.
C16_PersistenceFailureStillAnswers ==
    [][\A p \in Procs :
          /\ (req[p].pc \in PersistPcs /\ req'[p] # req[p]
                  /\ faults' # faults)
                => /\ chat_sessions' = chat_sessions
                   /\ chat_history' = chat_history
                   /\ req'[p].pc \in {"asst_insert", "done"}
          /\ (req[p].pc \in PersistPcs \cup SummarizingPcs
                  /\ req'[p] # req[p])
                => \/ req'[p].pc \in PersistPcs \cup SummarizingPcs
                   \/ req'[p].pc = "done" /\ req'[p].resp = "answer"]_vars

\* C16 happens: a request has returned its answer although a store call of
\* its saves raised, and the log misses a turn of the exchange.
C16_Witness ==
    \E p \in Procs :
        /\ req[p].pc = "done" /\ req[p].resp = "answer"
        /\ req[p].logged = "save_turn"
        /\ Cardinality(TurnsOfQuestion(chat_history, req[p].qid)) < 2

\* responses of the chat handler whose error text holds str(e) of the
\* exception caught
ExceptionText == {"error_session", "error_embedding", "error_search"}

\* C17: a chat request that failed for good (session resolution, embedding,
\* vector search or generation) is answered with the fixed rephrase message,
\* never with a text that holds the internal exception.
C17_FailureGivesFixedMessage ==
    \A p \in Procs :
        req[p].resp \in ExceptionText \cup {"fallback"}
            => req[p].resp = "fallback"

\* C18: a failed embedding with the newer model is followed by one attempt
\* with the older model, which is made in no other case; when that attempt
\* fails too the request ends reported failed; no embedding step changes the
\* store; and a request that ended so is over and has no turn in the log.
C18_OneEmbeddingFallback ==
    /\ [](\A p \in Procs :
             req[p].resp = "error_embedding" =>
                 /\ req[p].pc = "done"
                 /\ TurnsOfQuestion(chat_history, req[p].qid) = {})
    /\ [][\A p \in Procs :
             /\ (req[p].pc = "embed" /\ req'[p] # req[p])
                   => IF faults' = faults THEN req'[p].pc = "search"
                      ELSE req'[p].pc = "embed_fallback"
             /\ (req[p].pc = "embed_fallback" /\ req'[p] # req[p])
                   => IF faults' = faults THEN req'[p].pc = "search"
                      ELSE /\ req'[p].pc = "done"
                           /\ req'[p].resp = "error_embedding"
             /\ (req'[p].pc = "embed_fallback" /\ req[p].pc # "embed_fallback")
                   => req[p].pc = "embed" /\ faults' = faults + 1
             /\ (req[p].pc \in {"embed", "embed_fallback"} /\ req'[p] # req[p])
                   => /\ chat_sessions' = chat_sessions
                      /\ chat_history' = chat_history
             /\ (req[p].resp = "error_embedding" /\ req'[p] # req[p])
                   => req'[p].qid # req[p].qid]_vars

\* C18 happens: both embedding attempts of a request have failed.
C18_Witness ==
    \E p \in Procs :
        /\ req[p].pc = "done" /\ req[p].resp = "error_embedding"
        /\ faults = 2
        /\ req[p].sid \in SessionIds(chat_sessions)

\* C19: the step that refuses a chat request for a missing parameter changes
\* nothing in the store; the refused request is over without any handler
\* step, no session was created, touched or summarized by it and no turn of
\* it is in the log.
C19_InvalidRequestHasNoEffect ==
    /\ [](\A p \in Procs :
             req[p].resp = "http_400" =>
                 /\ req[p].pc = "done"
                 /\ req[p].sid = NoSession
                 /\ TurnsOfQuestion(chat_history, req[p].qid) = {}
                 /\ \A s \in SessionIds(chat_sessions) :
                       /\ chat_sessions[s].updated_at # req[p].qid
                       /\ chat_sessions[s].last_summarized_at # req[p].qid)
    /\ [][\A p \in Procs :
             (req'[p].resp = "http_400" /\ req'[p] # req[p])
                 => /\ chat_sessions' = chat_sessions
                    /\ chat_history' = chat_history
                    /\ faults' = faults
                    /\ req[p].pc \in {"idle", "done"}]_vars

\* C19 happens: a chat request with a missing parameter was refused while
\* the store holds a session with turns.
C19_Witness ==
    \E p \in Procs :
        /\ req[p].pc = "done" /\ req[p].resp = "http_400"
        /\ Len(chat_sessions) > 0
        /\ Len(chat_history) > 0

\* C20: the chunk_index values of the sequence chunk_text returns start at 0
\* and are strictly increasing along the sequence.
C20_ChunkIndexStrictlyIncreasing ==
    rag.stage = "chunked" =>
        /\ rag.chunks # <<>> => rag.chunks[1].chunk_index = 0
        /\ \A i \in 1..(Len(rag.chunks) - 1) :
              rag.chunks[i].chunk_index < rag.chunks[i + 1].chunk_index


\* a blank line inside s
HasParaBreak(s) == \E i \in 1..(Len(s) - 1) : SubSeq(s, i, i + 1) = ParaBreak

\* s is one sentence: it has no sentence end followed by whitespace inside
\* and does not run across a blank line
SingleSentence(s) ==
    /\ Len(SplitSentences(s, <<>>)) = 1
    /\ ~HasParaBreak(s)

\* C21: every chunk chunk_text returns has a content of at most max_chunk_size
\* characters, unless the chunk is one single sentence that is by itself
\* longer than max_chunk_size.
C21_ChunkLengthBounded ==
    rag.stage = "chunked" =>
        \A i \in 1..Len(rag.chunks) :
            \/ Len(rag.chunks[i].content) <= rag.max_chunk_size
            \/ SingleSentence(rag.chunks[i].content)


\* C22: a retrieve_chunks call whose query was embedded returns, without
\* raising, at most top_k results in non-increasing order of similarity_score;
\* with top_k = 0 or an empty corpus it returns the empty sequence.
C22_TopKOrderedResults ==
    /\ [](rag.stage = "returned" /\ rag.retriever = "retrieve_chunks" =>
             /\ Len(rag.results) <= rag.top_k
             /\ \A i, j \in 1..Len(rag.results) : i < j =>
                   rag.results[i].similarity_score
                       >= rag.results[j].similarity_score
             /\ \A i \in 1..Len(rag.results) :
                   rag.results[i].similarity_score
                       = Scale - rag.corpus[rag.results[i].id]
             /\ (rag.top_k = 0 \/ rag.corpus = <<>>) => rag.results = <<>>)
    /\ [](rag.stage = "embedded" /\ rag.retriever = "retrieve_chunks" =>
             OrderByLimit(rag.corpus, 1..Len(rag.corpus), rag.top_k) # {})
    /\ [][rag.stage = "embedded" /\ rag.retriever = "retrieve_chunks"
          /\ rag' # rag
             => rag'.stage = "returned"]_vars

\* C22 happens: retrieve_chunks returned the two nearest of three rows whose
\* order in the table is not their order of similarity.
C22_Witness ==
    /\ rag.stage = "returned"
    /\ rag.retriever = "retrieve_chunks"
    /\ rag.top_k = 2
    /\ Len(rag.corpus) = 3
    /\ rag.corpus[1] > rag.corpus[2]
    /\ rag.corpus[2] > rag.corpus[3]
    /\ Len(rag.results) = 2
    /\ rag.results[1].id = 3
    /\ rag.results[2].id = 2


\* C23: no result a retriever returns has a similarity_score below the
\* similarity threshold of the call, and a corpus without a row at or above
\* the threshold gives an empty result.
C23_NoResultBelowThreshold ==
    rag.stage = "returned" =>
        /\ \A i \in 1..Len(rag.results) :
              rag.results[i].similarity_score >= rag.similarity_threshold
        /\ Eligible(rag.corpus, rag.similarity_threshold) = {}
              => rag.results = <<>>


C25_LookupChangesOnlyUpdatedAt ==
    [][\A p \in Procs :
          /\ (req[p].pc = "goc_select" /\ req'[p].pc = "goc_update")
                => /\ req'[p].sid \in ActiveMatches(chat_sessions, req[p].user,
                                                    req[p].chapter)
                   /\ chat_sessions' = chat_sessions
                   /\ chat_history' = chat_history
          /\ (req[p].pc = "goc_update" /\ req'[p] # req[p])
                => /\ chat_history' = chat_history
                   /\ DOMAIN chat_sessions' = DOMAIN chat_sessions
                   /\ \A s \in DOMAIN chat_sessions :
                         IF s = req[p].sid
                         THEN chat_sessions'[s] =
                                 [chat_sessions[s] EXCEPT
                                     !.updated_at = chat_sessions'[s].updated_at]
                         ELSE chat_sessions'[s] = chat_sessions[s]
                   /\ req'[p].pc = "embed" => req'[p].sid = req[p].sid]_vars

\* C25 happens: a lookup found a session that holds earlier exchanges,
\* stamped it and returned it, while another session exists.
C25_Witness ==
    \E p \in Procs :
        /\ req[p].pc = "embed"
        /\ req[p].sid \in SessionIds(chat_sessions)
        /\ chat_sessions[req[p].sid].updated_at = req[p].qid
        /\ chat_sessions[req[p].sid].message_count > 0
        /\ SessionTurns(chat_history, req[p].sid) # <<>>
        /\ \E s \in SessionIds(chat_sessions) : s # req[p].sid


AssistantTurnCount(h, sid) ==
    Len(SelectSeq(h, LAMBDA t : t.session_id = sid /\ t.role = "assistant"))

\* two requests are summarizing the same session for the same message_count
TriggeredTwice ==
    \E p, q \in Procs :
        /\ p # q
        /\ req[p].pc \in SummarizingPcs
        /\ req[q].pc \in SummarizingPcs
        /\ req[p].sid = req[q].sid
        /\ req[p].count = req[q].count

\* every exchange of session s is stored and counted, its message_count has
\* passed 10, all requests are over, none has raised, and the session was
\* never summarized
TriggerSkipped(s) ==
    /\ Quiet
    /\ faults = 0
    /\ chat_sessions[s].message_count >= SummaryInterval
    /\ UserTurnCount(chat_history, s) = chat_sessions[s].message_count
    /\ AssistantTurnCount(chat_history, s) = chat_sessions[s].message_count
    /\ chat_sessions[s].last_summarized_at = 0

\* C26: a multiple of 10 that a session's message_count reaches triggers one
\* summarization, also when two chat requests of the session interleave
\* their saves: none triggers two, and none is passed without one.
C26_OneSummarizationPerMultiple ==
    /\ ~TriggeredTwice
    /\ \A s \in SessionIds(chat_sessions) : ~TriggerSkipped(s)


OtherTurns(h, sid) == SelectSeq(h, LAMBDA t : t.session_id # sid)

\* C27: the delete of a clear-history request with a session_id leaves that
\* session without turns and changes no other session's turns and no
\* session; its reset sets the session's message_count to 0 and changes
\* neither the log, nor the session's conversation_summary, status or id,
\* nor any other session. When requests are handled one at a time the
\* session has no turn and message_count 0 when the request answers.
C27_ClearFrame ==
    [][\A p \in Procs :
          /\ (req[p].pc = "clear_delete" /\ req'[p].pc = "clear_reset")
                => /\ SessionTurns(chat_history', req[p].sid) = <<>>
                   /\ OtherTurns(chat_history', req[p].sid)
                         = OtherTurns(chat_history, req[p].sid)
                   /\ chat_sessions' = chat_sessions
          /\ (req[p].pc = "clear_reset" /\ req'[p].resp = "cleared")
                => /\ chat_history' = chat_history
                   /\ DOMAIN chat_sessions' = DOMAIN chat_sessions
                   /\ \A s \in DOMAIN chat_sessions :
                         IF s = req[p].sid
                         THEN /\ chat_sessions'[s].message_count = 0
                              /\ chat_sessions'[s] =
                                    [chat_sessions[s] EXCEPT
                                       !.message_count = 0,
                                       !.updated_at =
                                           chat_sessions'[s].updated_at]
                         ELSE chat_sessions'[s] = chat_sessions[s]
                   /\ load.slots = {1}
                         => SessionTurns(chat_history', req[p].sid) = <<>>]_vars

\* C27 happens: a clear request has answered for a session that was
\* summarized: the session has no turn, message_count 0 and its summary.
C27_Witness ==
    \E p \in Procs :
        /\ req[p].pc = "done"
        /\ req[p].resp = "cleared"
        /\ req[p].sid \in SessionIds(chat_sessions)
        /\ chat_sessions[req[p].sid].conversation_summary # None
        /\ chat_sessions[req[p].sid].message_count = 0
        /\ SessionTurns(chat_history, req[p].sid) = <<>>
        /\ chat_sessions[req[p].sid].updated_at = req[p].qid


\* C28: a clear-history request with a session_id deletes turns and resets
\* message_count only in a session the authenticated caller owns: every
\* step of it that changes the log or a session acts on a session whose
\* user_id is the caller, and leaves the turns and counters of other users'
\* sessions as they are.
C28_ClearOnlyOwnSession ==
    [][\A p \in Procs :
          /\ req[p].pc \in {"clear_delete", "clear_reset"}
          /\ req'[p] # req[p]
          /\ (chat_history' # chat_history \/ chat_sessions' # chat_sessions)
          => /\ chat_sessions[req[p].sid].user_id = req[p].user
             /\ \A s \in SessionIds(chat_sessions) :
                   chat_sessions[s].user_id # req[p].user
                       => /\ SessionTurns(chat_history', s)
                                = SessionTurns(chat_history, s)
                          /\ chat_sessions'[s].message_count
                                = chat_sessions[s].message_count]_vars


\* C29: archive_session changes a session only when its user_id is the
\* authenticated caller, and then sets the status of that session to archived
\* and nothing else but its updated_at; for a session id that does not exist
\* or is owned by another user the request ends with an error and no step
\* of it changes a session.
C29_ArchiveOnlyOwnSession ==
    [][\A p \in Procs :
          /\ (req[p].pc \in {"archive_select", "archive_update"}
              /\ req'[p] # req[p])
                => /\ chat_history' = chat_history
                   /\ chat_sessions' # chat_sessions
                         => /\ req[p].sid \in SessionIds(chat_sessions)
                            /\ chat_sessions[req[p].sid].user_id = req[p].user
                            /\ chat_sessions' =
                                  [chat_sessions EXCEPT ![req[p].sid] =
                                      [@ EXCEPT !.status = "archived",
                                                !.updated_at = req[p].qid]]
                   /\ req'[p].resp = "archived"
                         => chat_sessions'[req[p].sid].status = "archived"
          /\ (req[p].pc = "archive_select" /\ req'[p] # req[p]
              /\ ~(/\ req[p].sid \in SessionIds(chat_sessions)
                   /\ chat_sessions[req[p].sid].user_id = req[p].user))
                => /\ req'[p].pc = "done"
                   /\ req'[p].resp = "http_500"
                   /\ chat_sessions' = chat_sessions]_vars

\* C29 happens: with no call having raised, an archive request for an
\* active session of another user has ended with an error and the session is
\* still active.
C29_Witness ==
    \E p \in Procs :
        /\ req[p].pc = "done"
        /\ req[p].resp = "http_500"
        /\ faults = 0
        /\ req[p].sid \in SessionIds(chat_sessions)
        /\ chat_sessions[req[p].sid].user_id # req[p].user
        /\ chat_sessions[req[p].sid].status = "active"
        /\ chat_sessions[req[p].sid].updated_at # req[p].qid


\* the ai_response_text messages sent so far
ResponseTexts == SelectSeq(voice.sent, LAMBDA m : m.type = "ai_response_text")

\* C30: when get_gemini_tutoring_response has failed and returned its
\* fallback message, the response text sent to the client carries
\* is_error = TRUE and the text-to-speech call is not made for it; audio is
\* sent only for a response that was sent with is_error = FALSE.
C30_FallbackIsErrorAndSilent ==
    /\ (voice.failed /\ voice.stage \in {"tts", "listening"})
          => /\ ResponseTexts # <<>>
             /\ ResponseTexts[Len(ResponseTexts)].text = FallbackMessage
             /\ ResponseTexts[Len(ResponseTexts)].is_error
             /\ voice.stage # "tts"
             /\ voice.tts_input = <<>>
    /\ \A i \in 1..Len(voice.sent) :
          voice.sent[i].type = "tts_audio"
              => /\ i > 1
                 /\ voice.sent[i - 1].type = "ai_response_text"
                 /\ voice.sent[i - 1].text = voice.sent[i].text
                 /\ ~voice.sent[i - 1].is_error
====
